---- MODULE Spec2Model ----
(***************************************************************************)
(* State-machine model of mineru_cli.py: one invocation of the parse,      *)
(* batch or status command under the handle_auth_error wrapper, the remote *)
(* service and the user at the prompts being the environment.              *)
(*                                                                         *)
(* clock is the wall clock read relative to the start of the current wait  *)
(* loop (time.time() - start); it advances in time.sleep(5) and while a    *)
(* remote call inside a wait loop blocks.                                  *)
(***************************************************************************)
EXTENDS Integers, Sequences, FiniteSets, TLC

\* ---- bounds of the model ----
MaxInputs == 2      \* inputs given to the batch command
MaxTimeout == 6     \* largest --timeout value explored
MaxLatency == 1     \* longest time one remote call blocks
MaxAttempts == 2    \* runs of the command under handle_auth_error
MaxTotal == 6       \* total_pages of a progress report

\* ---- program constants ----
POLL_INTERVAL == 5  \* time.sleep(5)

None == "none"
NoCode == -1        \* the command has not returned
NoJob == [type |-> None, id |-> 0, n |-> 0]
NoCall == [op |-> None, out |-> None]
NoDir == [root |-> None, of |-> 0, stem |-> None]
NoInput == [branch |-> None, url |-> None]
NoResp == [kind |-> None, code |-> 0, msg |-> <<>>]
NoProbe == [fn |-> None, call |-> None, resp |-> NoResp, names |-> <<>>,
            extracted |-> 0, total |-> 0]
NoVerdict == [ready |-> FALSE, class |-> None, paths |-> <<>>, bar |-> <<>>]

\* ---- inputs ----
\* What an input string is: "url" (http(s) scheme and a host), "text" (no
\* scheme, no such path, a URL or a domain-like name inside), "file" (an
\* existing path with a supported suffix), "badext" (an existing path with
\* another suffix, such as notes.txt), "missing" (no such path, nothing
\* URL-like in it), "urlfile" (http(s) scheme, and a path of that very name
\* exists), "domain" (no scheme, no such path, no http(s) URL inside but a bare
\* domain-like token such as example.com/a.pdf).  cmd_batch sends "badext" and "missing" through the same
\* branch of validate_file; its inputs are drawn from the first of them.
ParseKinds == {"url", "text", "file", "badext", "missing", "urlfile", "domain"}
BatchKinds == {"url", "file", "badext"}
Timeouts == {0, MaxTimeout}
BatchInputs == UNION {[1..k -> BatchKinds] : k \in 1..MaxInputs}

\* -o/--output is explored on the invocations that stop after submission
\* (--no-wait): the output directory is settled before the first remote call.
OutputExplored(a) == a.output => (a.no_wait /\ a.timeout = MaxTimeout)

ArgSet ==
    {a \in [command : {"parse"}, inputs : {<<k>> : k \in ParseKinds},
            no_wait : BOOLEAN, timeout : Timeouts, output : BOOLEAN,
            download : {FALSE}] : OutputExplored(a)}
    \cup
    {a \in [command : {"batch"}, inputs : BatchInputs,
            no_wait : BOOLEAN, timeout : Timeouts, output : BOOLEAN,
            download : {FALSE}] : OutputExplored(a)}
    \cup
    [command : {"status"}, inputs : {<<"id">>}, no_wait : {FALSE},
     timeout : {MaxTimeout}, output : BOOLEAN, download : BOOLEAN]

\* What the user types at "Enter API token: " (or Ctrl-C / EOF).
TokenInputs == {"", "interrupt", "new"}
\* What the user types at "Do you want to update your token now? [Y/n]".
Choices == {"y", "n", "interrupt"}

\* ---- the remote service's answers ----
MemberStates == {"running", "done", "failed"}
\* One entry of extract_result / one task status: zip is "full_zip_url is
\* present", which the service sets only for a done job.
Members == {[state |-> s, zip |-> z] :
                s \in MemberStates, z \in BOOLEAN} \
           {[state |-> s, zip |-> TRUE] : s \in MemberStates \ {"done"}}
\* extract_result of a batch of n submitted members: the members listed so far.
Responses(n) == UNION {[1..k -> Members] : k \in 0..n}
CallOutcomes == {"ok", "api", "auth"}     \* _request: result, APIError, AuthError
UploadOutcomes == {"ok", "fail", "neterr"} \* 200, other status, requests exception

\* One entry of extract_result as far as its "file_name" key goes: the key is
\* present with a name, or absent.
FileNames == {[present |-> FALSE, name |-> <<>>]}
             \cup {[present |-> TRUE, name |-> n] :
                      n \in {<<"a", ".", "p", "d", "f">>,
                             <<"a", ".", "d", "o", "c", "x">>,
                             <<"b", ".", "p", "d", "f">>}}

\* What comes back on the wire.  A message is the sequence of its characters.
Messages == {<<>>,
             <<"b", "u", "s", "y">>,
             <<"a", "u", "t">>,
             <<"A", "U", "T", "H">>,
             <<"n", "o", " ", "T", "o", "k", "e", "n">>,
             <<"u", "n", "a", "u", "t", "h", "o", "r", "i", "z", "e", "d">>}
ApiCodes == {0, 401, 403, -60001}        \* "code" of the JSON envelope
HttpStatuses == {200, 401, 403, 500}     \* status of the PUT to the signed URL
\* responses to a call through _request, and the request failing on the network
ApiResponses ==
    [kind : {"json"}, code : ApiCodes, msg : Messages]
    \cup {[kind |-> "neterr", code |-> 0, msg |-> <<>>]}
\* responses to requests.put in upload_file
UploadResponses ==
    [kind : {"http"}, code : HttpStatuses, msg : Messages]
    \cup {[kind |-> "neterr", code |-> 0, msg |-> <<>>]}
DlOutcomes == {"ok", "dlfail", "exfail"}   \* download_file / extract_zip results

VARIABLES
    args,           \* argparse namespace of the invocation
    envToken,       \* MINERU_API_TOKEN / MINERU_API_KEY
    cfgToken,       \* config.json "token"
    token,          \* MinerUClient.token of the current attempt
    pc,             \* position of the control flow
    attempt,        \* iteration of handle_auth_error's while True
    exitCode,       \* value returned by the wrapped command
    dirCreated,     \* output_dir.mkdir was executed
    urls, files,    \* cmd_batch's partition of the inputs
    batch_id,       \* the command's local task_id / batch_id (n: members submitted)
    batch_ids,      \* cmd_batch's batch_ids list
    upIdx,          \* position in zip(files, upload_urls)
    waitIdx,        \* position in "for ... in batch_ids"
    nextId,         \* next identifier the service hands out
    firstId,        \* first identifier handed out in the current attempt
    curId,          \* task_id / batch_id the wait loop polls
    curN,           \* members submitted under curId
    expected_stem,  \* wait_for_batch's expected_stem is set
    clock,          \* time.time() - start
    results,        \* extract_result of the last successful batch poll
    failed_count,   \* wait_for_batch's failed_count
    idx,            \* position in "for result in results"
    dlLog,          \* downloads started by the current wait loop
    failLines,      \* failure lines printed by the current wait loop
    loopEnd,        \* how the last wait loop ended
    loopRet,        \* what the last wait loop returned
    lastCall,       \* the last remote call and its outcome
    lastMsg,        \* last message printed
    callTime,       \* time spent in remote calls since the last timeout test
    lateReq,        \* a status request was started with elapsed > timeout
    timedOut,       \* a wait loop of this attempt ended by timeout
    anyFailed,      \* a wait loop of this attempt finished with a failed member
    pollAfterTimeout, \* a status request was issued after a timeout
    nStatus,        \* status requests of the wait loops of this attempt
    nRemote,        \* remote calls of this attempt
    nAuth,          \* AuthErrors that reached the wrapper
    nPrompts,       \* times the wrapper asked "update your token now?"
    lastChoice,     \* the wrapper's last choice read
    lastTokIn,      \* the last input to prompt_for_token
    invalidReported, \* positions of the inputs validate_file printed an error for
    parse_input,    \* the branch cmd_parse took for its input, and the URL it submits
    output_dir,     \* the command's output_dir
    regFailed,      \* a registration of this attempt failed with an APIError
    anyDlFail,      \* a download or an unpacking of this attempt failed
    probe,          \* the arguments a function is evaluated on (FnSpec)
    verdict         \* what the function made of them (FnSpec)

tokVars == <<envToken, cfgToken, token>>
subVars == <<urls, files, batch_id, batch_ids, upIdx, waitIdx>>
idVars == <<nextId, firstId>>
loopVars == <<curId, curN, expected_stem, clock, results, failed_count, idx,
              dlLog, failLines, loopEnd, loopRet, callTime>>
histVars == <<lateReq, timedOut, anyFailed, pollAfterTimeout, nStatus>>
promptVars == <<nPrompts, lastChoice, lastTokIn>>
outVars == <<invalidReported, output_dir, parse_input>>
fnVars == <<probe, verdict>>
vars == <<args, tokVars, pc, attempt, exitCode, dirCreated, subVars, idVars,
          loopVars, histVars, lastCall, lastMsg, nRemote, nAuth, promptVars,
          outVars, regFailed, anyDlFail, fnVars>>

\* ---- pure helpers ----
RECURSIVE CountState(_, _)
CountState(rs, s) ==
    IF rs = <<>> THEN 0
    ELSE (IF Head(rs).state = s THEN 1 ELSE 0) + CountState(Tail(rs), s)

\* all(r.get("state") in ("done", "failed") for r in results)
all_finished(rs) == \A i \in 1..Len(rs) : rs[i].state \in {"done", "failed"}

\* os.environ.get(A) or os.environ.get(B), else config.get("token")
get_token == IF envToken # None THEN envToken ELSE cfgToken

\* input(...).strip(); a non-empty token is returned, else None
prompt_for_token(inp) == IF inp \in {"", "interrupt"} THEN None ELSE inp

\* urlparse(s).scheme in ("http", "https")
is_url(k) == k \in {"url", "urlfile"}

\* the match of the http(s) pattern; else "https://" + the match of the
\* domain-like pattern (a dotted file name matches it); else None
extract_url_http_only(k) ==
    IF k \in {"url", "urlfile", "text"} THEN "match" ELSE None
extract_url(k) ==
    IF k \in {"url", "urlfile", "text"} THEN "match"
    ELSE IF k \in {"domain", "file", "badext"} THEN "https_token"
    ELSE None

\* Path(...).exists()
path_exists(k) == k \in {"file", "badext", "urlfile"}

\* file_path.suffix.lower() in SUPPORTED_FORMATS
suffix_supported(k) == k = "file"

\* not exists -> False; suffix not supported -> False; else True
validate_file_any_suffix(k) == path_exists(k)
validate_file(k) == path_exists(k) /\ suffix_supported(k)

\* cmd_parse: Path(args.output), else file_path.parent / name for a local
\* file and Path.cwd() / name for a URL
ParseOutputDir(given, local) ==
    IF given THEN [root |-> "override", of |-> 0, stem |-> None]
    ELSE IF local THEN [root |-> "parent", of |-> 1, stem |-> "input"]
    ELSE [root |-> "cwd", of |-> 0, stem |-> "input"]

\* cmd_batch: Path(args.output), elif files: files[0].parent / name, else
\* Path.cwd() / name, with name = generate_output_dir_name("batch")
BatchOutputDir_cwd(given, fs) ==
    IF given THEN [root |-> "override", of |-> 0, stem |-> None]
    ELSE [root |-> "cwd", of |-> 0, stem |-> "batch"]
BatchOutputDir(given, fs) ==
    IF given THEN [root |-> "override", of |-> 0, stem |-> None]
    ELSE IF fs # <<>> THEN [root |-> "parent", of |-> fs[1], stem |-> "batch"]
    ELSE [root |-> "cwd", of |-> 0, stem |-> "batch"]

\* if not urls and not files
NoValidInputs_no_files(us, fs) == fs = <<>>
NoValidInputs(us, fs) == us = <<>> /\ fs = <<>>

\* cmd_status: Path(args.output) if args.output else get_default_output_dir()
StatusOutputDir(given) ==
    IF given THEN [root |-> "override", of |-> 0, stem |-> None]
    ELSE [root |-> "default", of |-> 0, stem |-> None]

\* all(r.get("state") == "done" for r in results)
all_done_some(rs) == \E i \in 1..Len(rs) : rs[i].state = "done"
all_done(rs) == \A i \in 1..Len(rs) : rs[i].state = "done"

\* cmd_status: except APIError as e: if isinstance(e, AuthError): raise e
StatusReraised_none(out) == FALSE
StatusReraised(out) == out = "auth"

\* "for inp in inputs: ... append": the positions of the inputs whose kind is
\* in ks, in the order given
Positions(ks) ==
    SelectSeq([i \in 1..Len(args.inputs) |-> i], LAMBDA i : args.inputs[i] \in ks)

\* str.lower() on the letters that matter here
LowerChar(c) ==
    CASE c = "A" -> "a" [] c = "U" -> "u" [] c = "T" -> "t" [] c = "H" -> "h"
      [] c = "O" -> "o" [] c = "K" -> "k" [] c = "E" -> "e" [] c = "N" -> "n"
      [] OTHER -> c
lower(m) == [i \in 1..Len(m) |-> LowerChar(m[i])]

\* Python's "sub in m" on strings
Contains(sub, m) ==
    \E i \in 1..(Len(m) - Len(sub) + 1) : SubSeq(m, i, i + Len(sub) - 1) = sub

\* MinerUClient._request: code 0 -> the result; code == 401 or "auth" /
\* "token" in the lowered message -> AuthError; any other code -> APIError;
\* requests.exceptions.RequestException -> APIError
request_outcome(resp) ==
    IF resp.kind = "neterr" THEN "api"
    ELSE IF resp.code = 0 THEN "ok"
    ELSE IF \/ resp.code = 401
            \/ Contains(<<"a", "u", "t", "h">>, lower(resp.msg))
            \/ Contains(<<"t", "o", "k", "e", "n">>, lower(resp.msg))
         THEN "auth"
    ELSE "api"

\* MinerUClient.upload_file: requests.put outside _request and outside any
\* try; return response.status_code == 200.  "neterr" is the requests
\* exception leaving upload_file as it is.
upload_file(resp) ==
    IF resp.kind = "neterr" THEN "neterr"
    ELSE IF resp.code = 200 THEN "ok"
    ELSE "fail"

\* Path(base_name).stem: the name without its last suffix; a dot that leads
\* or ends the name starts no suffix
LastDot(n) ==
    IF \E i \in DOMAIN n : n[i] = "."
       THEN CHOOSE i \in DOMAIN n :
                n[i] = "." /\ \A j \in DOMAIN n : n[j] = "." => j <= i
       ELSE 0
PathStem(n) ==
    IF 1 < LastDot(n) /\ LastDot(n) < Len(n) THEN SubSeq(n, 1, LastDot(n) - 1)
    ELSE n

\* wait_for_batch: file_name = result.get("file_name", "result")
file_name(r) == IF r.present THEN r.name ELSE <<"r", "e", "s", "u", "l", "t">>

\* download_result: zip_path = output_dir / (Path(base_name).stem + ".zip"),
\* extract_dir = output_dir / Path(base_name).stem; both relative to output_dir
zip_path(base_name) == PathStem(base_name) \o <<".", "z", "i", "p">>
extract_dir(base_name) == PathStem(base_name)

\* Python's c * n on a one-character string: empty for n <= 0
Times(c, n) == [i \in 1..n |-> c]

\* wait_for_task: bar_len = 30; filled = int(bar_len * extracted / total);
\* bar = "=" * filled + ">" + " " * (bar_len - filled - 1)
bar_len == 30
filled(extracted, total) == (bar_len * extracted) \div total
progress_bar(extracted, total) ==
    Times("=", filled(extracted, total)) \o <<">">>
        \o Times(" ", bar_len - filled(extracted, total) - 1)

\* elapsed > timeout
TimedOut_late(elapsed, timeout) == elapsed > timeout + POLL_INTERVAL + 2
TimedOut(elapsed, timeout) == elapsed > timeout

\* except APIError as e: if isinstance(e, AuthError): raise e
Reraised_all(out) == out \in {"auth", "api"}
Reraised_none(out) == FALSE
Reraised(out) == out = "auth"

\* return 0 if failed_count == 0 else 1
BatchResult_zero(fc) == 0
BatchResult(fc) == IF fc = 0 THEN 0 ELSE 1

\* if choice not in ('n', 'no'): new_token = prompt_for_token(); if new_token: continue
ShouldRetry_always(choice, new_token) == choice \notin {"n", "no"}
ShouldRetry(choice, new_token) == choice \notin {"n", "no"} /\ new_token # None

\* Names bound when line 806 of wait_for_task is evaluated, and names it reads.
wait_for_task_locals == {"client", "task_id", "output_dir", "timeout", "start",
                         "elapsed", "status", "state", "progress", "extracted",
                         "total", "spinner", "spin_char", "elapsed_str"}
module_globals == {"color", "Colors", "time", "download_result", "format_time",
                   "APIError", "AuthError"}
render_reads == {"color", "label", "c", "spin_char", "elapsed_str"}
RenderRaisesNameError == ~(render_reads \subseteq (wait_for_task_locals \cup module_globals))

\* if expected_stem and len(results) == 1: download_result_flat else download_result
UnpackMode(stem, rs) == IF stem /\ Len(rs) = 1 THEN "flat" ELSE "sub"

\* What one materialization leaves behind.  out is what download_file and
\* extract_zip returned: "ok" (both True), "dlfail" (download_file False, the
\* archive absent or partly written), "exfail" (extract_zip False).
\* download_result: archive output_dir/<stem>.zip, unpacked into output_dir/<stem>;
\* zip_path.unlink() only under "if extract_zip(...)".
download_result_unlink_always(out) ==
    [zip |-> IF out = "dlfail" THEN "partial" ELSE "deleted",
     unpacked |-> out = "ok", target |-> "subfolder",
     msg |-> CASE out = "ok" -> "output" [] out = "exfail" -> "zip_saved"
               [] OTHER -> "failed"]
download_result(out) ==
    [zip |-> CASE out = "ok" -> "deleted" [] out = "exfail" -> "kept"
               [] OTHER -> "partial",
     unpacked |-> out = "ok", target |-> "subfolder",
     msg |-> CASE out = "ok" -> "output" [] out = "exfail" -> "zip_saved"
               [] OTHER -> "failed"]

\* download_result_flat: archive output_dir/result.zip, unpacked into output_dir
download_result_flat(out) ==
    [zip |-> CASE out = "ok" -> "deleted" [] out = "exfail" -> "kept"
               [] OTHER -> "partial",
     unpacked |-> out = "ok", target |-> "output_dir",
     msg |-> CASE out = "ok" -> "output" [] out = "exfail" -> "zip_saved"
               [] OTHER -> "failed"]

\* the entry of dlLog for member i of results
DlEntry(i, out, mode) ==
    [i |-> i, out |-> out, mode |-> mode,
     fs |-> IF mode = "flat" THEN download_result_flat(out)
            ELSE download_result(out)]

\* "for result in results": download_result returns nothing and raises
\* nothing, the loop goes on to the next member whatever happened
next_result_break(i, out, n) == IF out = "ok" THEN i + 1 ELSE n + 1
next_result(i, out, n) == i + 1

\* "if not args.no_wait: return wait_for_...(...)"; else the identifier is
\* printed and the command returns 0
SubmitOnly_never == FALSE
SubmitOnly == args.no_wait

\* ---- control-flow helpers (constrain pc, exitCode, waitIdx, loopVars, lastMsg) ----
\* the locals of a wait loop at its entry; "start_time = time.time()"
LoopFresh_shared_budget ==
    /\ results' = <<>> /\ failed_count' = 0 /\ idx' = 0 /\ dlLog' = <<>>
    /\ failLines' = 0 /\ loopEnd' = "none" /\ loopRet' = NoCode
    /\ clock' = clock /\ callTime' = 0
LoopFresh ==
    /\ results' = <<>> /\ failed_count' = 0 /\ idx' = 0 /\ dlLog' = <<>>
    /\ failLines' = 0 /\ loopEnd' = "none" /\ loopRet' = NoCode
    /\ clock' = 0 /\ callTime' = 0

\* return <code> from the command
Return(code, msg) ==
    /\ pc' = "exit" /\ exitCode' = code /\ lastMsg' = msg
    /\ UNCHANGED <<waitIdx, loopVars>>

\* wait_for_batch(client, batch_id, output_dir, timeout[, stem]) is entered
EnterWaitBatch(i, b, stem) ==
    /\ pc' = "wait_batch" /\ exitCode' = exitCode /\ lastMsg' = "waiting"
    /\ waitIdx' = i /\ curId' = b.id /\ curN' = b.n /\ expected_stem' = stem
    /\ LoopFresh

\* wait_for_task(client, task_id, output_dir, timeout) is entered
EnterWaitTask(b) ==
    /\ pc' = "wait_task" /\ exitCode' = exitCode /\ lastMsg' = "waiting"
    /\ waitIdx' = 1 /\ curId' = b.id /\ curN' = 1 /\ expected_stem' = FALSE
    /\ LoopFresh

\* an AuthError leaves the command and reaches the wrapper
RaiseAuth ==
    /\ pc' = "auth_error" /\ exitCode' = exitCode /\ nAuth' = nAuth + 1
    /\ lastMsg' = "autherr"

\* an exception that nothing catches ends the process
Crash ==
    /\ pc' = "crashed" /\ exitCode' = exitCode /\ lastMsg' = "traceback"

\* cmd_batch after the submissions: lines 621-634
AfterSubmit(bids) ==
    IF bids = <<>> THEN Return(1, "apierr")
    ELSE IF SubmitOnly THEN Return(0, "batch_ids")
    ELSE EnterWaitBatch(1, bids[1], FALSE)

\* nothing of the command has run yet
Fresh ==
    /\ token = None
    /\ attempt = 1 /\ exitCode = NoCode
    /\ dirCreated = FALSE
    /\ urls = <<>> /\ files = <<>> /\ batch_id = NoJob /\ batch_ids = <<>>
    /\ upIdx = 0 /\ waitIdx = 0
    /\ nextId = 1 /\ firstId = 1
    /\ curId = 0 /\ curN = 0 /\ expected_stem = FALSE /\ clock = 0
    /\ results = <<>> /\ failed_count = 0 /\ idx = 0 /\ dlLog = <<>>
    /\ failLines = 0 /\ loopEnd = "none" /\ loopRet = NoCode /\ callTime = 0
    /\ lastCall = NoCall /\ lateReq = FALSE /\ timedOut = FALSE
    /\ anyFailed = FALSE /\ pollAfterTimeout = FALSE /\ nStatus = 0
    /\ lastMsg = "none" /\ nRemote = 0 /\ nAuth = 0
    /\ nPrompts = 0 /\ lastChoice = None /\ lastTokIn = None
    /\ invalidReported = <<>> /\ output_dir = NoDir /\ parse_input = NoInput
    /\ regFailed = FALSE /\ anyDlFail = FALSE

Init ==
    /\ args \in ArgSet
    /\ envToken \in {None, "env"}
    /\ cfgToken \in {None, "cfg"}
    /\ pc = "begin"
    /\ Fresh
    /\ probe = NoProbe /\ verdict = NoVerdict

\* ---- token resolution ----
\* ensure_token: token = get_token(); a missing token leads to the prompt
EnsureToken ==
    /\ pc = "begin"
    /\ IF get_token # None
          THEN token' = get_token /\ pc' = "body"
          ELSE token' = None /\ pc' = "token_prompt"
    /\ UNCHANGED <<outVars, regFailed, anyDlFail>>
    /\ UNCHANGED fnVars
    /\ UNCHANGED <<lastCall, args, envToken, cfgToken, attempt, exitCode, dirCreated,
                   subVars, idVars, loopVars, histVars, lastMsg, nRemote,
                   nAuth, promptVars>>

\* ensure_token -> prompt_for_token; "if not token: return 1"
PromptInitial ==
    /\ pc = "token_prompt"
    /\ \E inp \in TokenInputs :
         LET t == prompt_for_token(inp) IN
         /\ lastTokIn' = inp
         /\ IF t # None
               THEN /\ cfgToken' = t /\ token' = t
                    /\ pc' = "body" /\ exitCode' = exitCode
               ELSE /\ cfgToken' = cfgToken /\ token' = token
                    /\ pc' = "exit" /\ exitCode' = 1
    /\ UNCHANGED <<outVars, regFailed, anyDlFail>>
    /\ UNCHANGED fnVars
    /\ UNCHANGED <<lastCall, args, envToken, attempt, dirCreated, subVars, idVars,
                   loopVars, histVars, lastMsg, nRemote, nAuth, nPrompts,
                   lastChoice>>

\* ---- cmd_parse ----
\* classification, validation, output directory: up to the first remote call
CmdParseBody ==
    /\ pc = "body" /\ args.command = "parse"
    /\ LET k == args.inputs[1] IN
       IF is_url(k)
          THEN /\ dirCreated' = TRUE /\ pc' = "submit_url"
               /\ exitCode' = exitCode /\ lastMsg' = "output"
               /\ invalidReported' = <<>>
               /\ parse_input' = [branch |-> "url", url |-> "input"]
               /\ output_dir' = ParseOutputDir(args.output, FALSE)
       ELSE IF extract_url(k) # None /\ ~path_exists(k)
          THEN /\ dirCreated' = TRUE /\ pc' = "submit_url"
               /\ exitCode' = exitCode /\ lastMsg' = "output"
               /\ invalidReported' = <<>>
               /\ parse_input' = [branch |-> "extracted_url",
                                  url |-> extract_url(k)]
               /\ output_dir' = ParseOutputDir(args.output, FALSE)
       ELSE IF ~validate_file(k)
          THEN /\ dirCreated' = dirCreated /\ pc' = "exit"
               /\ exitCode' = 1 /\ lastMsg' = "invalid"
               /\ invalidReported' = <<1>> /\ output_dir' = output_dir
               /\ parse_input' = [branch |-> "file_path", url |-> None]
          ELSE /\ dirCreated' = TRUE /\ pc' = "submit_file"
               /\ exitCode' = exitCode /\ lastMsg' = "output"
               /\ invalidReported' = <<>>
               /\ parse_input' = [branch |-> "file_path", url |-> None]
               /\ output_dir' = ParseOutputDir(args.output, TRUE)
    /\ UNCHANGED <<regFailed, anyDlFail>>
    /\ UNCHANGED fnVars
    /\ UNCHANGED <<lastCall, args, tokVars, attempt, subVars, idVars, loopVars,
                   histVars, nRemote, nAuth, promptVars>>

\* client.submit_url_task and what follows it (lines 441-454 / 474-487)
SubmitUrlTask ==
    /\ pc = "submit_url"
    /\ nRemote' = nRemote + 1
    /\ \E out \in CallOutcomes :
         /\ lastCall' = [op |-> "submit", out |-> out]
         /\ regFailed' = (regFailed \/ out = "api")
         /\ LET b == [type |-> "task", id |-> nextId, n |-> 1] IN
            CASE out = "ok" ->
                   /\ batch_id' = b /\ nextId' = nextId + 1
                   /\ IF SubmitOnly THEN Return(0, "task_id") ELSE EnterWaitTask(b)
                   /\ nAuth' = nAuth
              [] out = "auth" ->
                   /\ RaiseAuth
                   /\ UNCHANGED <<batch_id, nextId, waitIdx, loopVars>>
              [] OTHER ->
                   /\ Return(1, "apierr")
                   /\ UNCHANGED <<batch_id, nextId, nAuth>>
    /\ UNCHANGED <<outVars, anyDlFail>>
    /\ UNCHANGED fnVars
    /\ UNCHANGED <<args, tokVars, attempt, dirCreated, urls, files, batch_ids,
                   upIdx, firstId, histVars, promptVars>>

\* client.submit_file_task (lines 509-513, 525-528)
SubmitFileTask ==
    /\ pc = "submit_file"
    /\ nRemote' = nRemote + 1
    /\ \E out \in CallOutcomes :
         /\ lastCall' = [op |-> "submit", out |-> out]
         /\ regFailed' = (regFailed \/ out = "api")
         /\ CASE out = "ok" ->
                   /\ batch_id' = [type |-> "file", id |-> nextId, n |-> 1]
                   /\ nextId' = nextId + 1
                   /\ pc' = "upload_one" /\ exitCode' = exitCode
                   /\ lastMsg' = "ok" /\ nAuth' = nAuth
                   /\ UNCHANGED <<waitIdx, loopVars>>
              [] out = "auth" ->
                   /\ RaiseAuth
                   /\ UNCHANGED <<batch_id, nextId, waitIdx, loopVars>>
              [] OTHER ->
                   /\ Return(1, "apierr")
                   /\ UNCHANGED <<batch_id, nextId, nAuth>>
    /\ UNCHANGED <<outVars, anyDlFail>>
    /\ UNCHANGED fnVars
    /\ UNCHANGED <<args, tokVars, attempt, dirCreated, urls, files, batch_ids,
                   upIdx, firstId, histVars, promptVars>>

\* client.upload_file and what follows it (lines 516-535)
UploadSingle ==
    /\ pc = "upload_one"
    /\ nRemote' = nRemote + 1
    /\ \E out \in UploadOutcomes :
         /\ lastCall' = [op |-> "upload", out |-> out]
         /\ CASE out = "ok" ->
                   IF SubmitOnly THEN Return(0, "batch_id")
                   ELSE EnterWaitBatch(1, batch_id, TRUE)
              [] out = "fail" -> Return(1, "upload_failed")
              [] OTHER -> Crash /\ UNCHANGED <<waitIdx, loopVars>>
    /\ UNCHANGED <<outVars, regFailed, anyDlFail>>
    /\ UNCHANGED fnVars
    /\ UNCHANGED <<args, tokVars, attempt, dirCreated, urls, files, batch_id,
                   batch_ids, upIdx, idVars, histVars, nAuth, promptVars>>

\* ---- cmd_batch ----
\* partition of the inputs, "No valid inputs", output directory (lines 558-586)
CmdBatchBody ==
    /\ pc = "body" /\ args.command = "batch"
    /\ parse_input' = parse_input
    /\ LET us == Positions({k \in BatchKinds : is_url(k)})
           fs == Positions({k \in BatchKinds : ~is_url(k) /\ validate_file(k)})
       IN
       /\ urls' = us /\ files' = fs
       /\ invalidReported' =
             Positions({k \in BatchKinds : ~is_url(k) /\ ~validate_file(k)})
       /\ IF NoValidInputs(us, fs)
             THEN /\ pc' = "exit" /\ exitCode' = 1 /\ lastMsg' = "no_valid_inputs"
                  /\ dirCreated' = dirCreated /\ output_dir' = output_dir
             ELSE /\ pc' = (IF us # <<>> THEN "submit_urls" ELSE "submit_files")
                  /\ exitCode' = exitCode /\ lastMsg' = "output"
                  /\ dirCreated' = TRUE
                  /\ output_dir' = BatchOutputDir(args.output, fs)
    /\ UNCHANGED <<regFailed, anyDlFail>>
    /\ UNCHANGED fnVars
    /\ UNCHANGED <<lastCall, args, tokVars, attempt, batch_id, batch_ids, upIdx, waitIdx,
                   idVars, loopVars, histVars, nRemote, nAuth, promptVars>>

\* client.submit_batch_urls (lines 591-599) and, without files, lines 621-634
SubmitBatchUrls ==
    /\ pc = "submit_urls"
    /\ nRemote' = nRemote + 1
    /\ \E out \in CallOutcomes :
         /\ lastCall' = [op |-> "submit", out |-> out]
         /\ regFailed' = (regFailed \/ out = "api")
         /\ LET b == [type |-> "urls", id |-> nextId, n |-> Len(urls)] IN
            CASE out = "ok" ->
                   /\ batch_id' = b /\ batch_ids' = Append(batch_ids, b)
                   /\ nextId' = nextId + 1 /\ nAuth' = nAuth
                   /\ IF files # <<>>
                         THEN /\ pc' = "submit_files" /\ exitCode' = exitCode
                              /\ lastMsg' = "batch_id"
                              /\ UNCHANGED <<waitIdx, loopVars>>
                         ELSE AfterSubmit(batch_ids')
              [] out = "auth" ->
                   /\ RaiseAuth
                   /\ UNCHANGED <<batch_id, batch_ids, nextId, waitIdx, loopVars>>
              [] OTHER ->
                   /\ UNCHANGED <<batch_id, batch_ids, nextId, nAuth>>
                   /\ IF files # <<>>
                         THEN /\ pc' = "submit_files" /\ exitCode' = exitCode
                              /\ lastMsg' = "apierr"
                              /\ UNCHANGED <<waitIdx, loopVars>>
                         ELSE AfterSubmit(batch_ids)
    /\ UNCHANGED <<outVars, anyDlFail>>
    /\ UNCHANGED fnVars
    /\ UNCHANGED <<args, tokVars, attempt, dirCreated, urls, files, upIdx,
                   firstId, histVars, promptVars>>

\* client.submit_batch_files (lines 602-606, 617-619)
SubmitBatchFiles ==
    /\ pc = "submit_files"
    /\ nRemote' = nRemote + 1
    /\ \E out \in CallOutcomes :
         /\ lastCall' = [op |-> "submit", out |-> out]
         /\ regFailed' = (regFailed \/ out = "api")
         /\ CASE out = "ok" ->
                   /\ batch_id' = [type |-> "files", id |-> nextId, n |-> Len(files)]
                   /\ nextId' = nextId + 1 /\ nAuth' = nAuth
                   /\ upIdx' = 1 /\ pc' = "upload" /\ exitCode' = exitCode
                   /\ lastMsg' = "batch_id"
                   /\ UNCHANGED <<waitIdx, loopVars>>
              [] out = "auth" ->
                   /\ RaiseAuth
                   /\ UNCHANGED <<batch_id, nextId, upIdx, waitIdx, loopVars>>
              [] OTHER ->
                   /\ UNCHANGED <<batch_id, nextId, upIdx, nAuth>>
                   /\ AfterSubmit(batch_ids)
    /\ UNCHANGED <<outVars, anyDlFail>>
    /\ UNCHANGED fnVars
    /\ UNCHANGED <<args, tokVars, attempt, dirCreated, urls, files, batch_ids,
                   firstId, histVars, promptVars>>

\* one round of "for file_path, upload_url in zip(files, upload_urls)"; after
\* the last one batch_ids.append and lines 621-634
UploadBatchFile ==
    /\ pc = "upload"
    /\ nRemote' = nRemote + 1
    /\ \E out \in UploadOutcomes :
         /\ lastCall' = [op |-> "upload", out |-> out]
         /\ IF out = "neterr"
               THEN Crash /\ UNCHANGED <<batch_ids, upIdx, waitIdx, loopVars>>
            ELSE IF upIdx < Len(files)
               THEN /\ upIdx' = upIdx + 1 /\ pc' = pc /\ exitCode' = exitCode
                    /\ lastMsg' = (IF out = "ok" THEN "ok" ELSE "upload_failed")
                    /\ UNCHANGED <<batch_ids, waitIdx, loopVars>>
               ELSE /\ upIdx' = upIdx
                    /\ batch_ids' = Append(batch_ids, batch_id)
                    /\ AfterSubmit(batch_ids')
    /\ UNCHANGED <<outVars, regFailed, anyDlFail>>
    /\ UNCHANGED fnVars
    /\ UNCHANGED <<args, tokVars, attempt, dirCreated, urls, files, batch_id,
                   idVars, histVars, nAuth, promptVars>>

\* ---- wait_for_batch ----
\* one round of the while loop whose timeout test passes: the status request,
\* the counting, the all_finished test, and time.sleep(5) (lines 852-883, 903-907)
WaitBatchPoll ==
    /\ pc = "wait_batch"
    /\ ~TimedOut(clock, args.timeout)
    /\ nStatus' = nStatus + 1 /\ nRemote' = nRemote + 1
    /\ lateReq' = (lateReq \/ clock > args.timeout)
    /\ pollAfterTimeout' = (pollAfterTimeout \/ timedOut)
    /\ \E lat \in 0..MaxLatency, out \in CallOutcomes :
         /\ lastCall' = [op |-> "status", out |-> out] /\ callTime' = lat
         /\ IF out = "ok"
               THEN \E r \in Responses(curN) :
                      /\ results' = r
                      /\ failed_count' = CountState(r, "failed")
                      /\ exitCode' = exitCode /\ nAuth' = nAuth
                      /\ lastMsg' = "progress"
                      /\ IF all_finished(r)
                            THEN /\ pc' = "wait_batch_dl" /\ idx' = 1
                                 /\ clock' = clock + lat
                            ELSE /\ pc' = pc /\ idx' = idx
                                 /\ clock' = clock + lat + POLL_INTERVAL
            ELSE IF Reraised(out)
               THEN /\ RaiseAuth
                    /\ clock' = clock + lat
                    /\ UNCHANGED <<results, failed_count, idx>>
               ELSE /\ pc' = pc /\ exitCode' = exitCode /\ nAuth' = nAuth
                    /\ lastMsg' = "apierr"
                    /\ clock' = clock + lat + POLL_INTERVAL
                    /\ UNCHANGED <<results, failed_count, idx>>
    /\ UNCHANGED <<outVars, regFailed, anyDlFail>>
    /\ UNCHANGED fnVars
    /\ UNCHANGED <<args, tokVars, attempt, dirCreated, subVars, idVars, curId,
                   curN, expected_stem, dlLog, failLines, loopEnd, loopRet,
                   timedOut, anyFailed, promptVars>>

\* elapsed > timeout: "Timeout after ...", return 1 (lines 853-855)
WaitBatchTimeout ==
    /\ pc = "wait_batch"
    /\ TimedOut(clock, args.timeout)
    /\ pc' = "wait_returned" /\ lastMsg' = "timeout"
    /\ loopEnd' = "timeout" /\ loopRet' = 1 /\ timedOut' = TRUE
    /\ UNCHANGED <<outVars, regFailed, anyDlFail>>
    /\ UNCHANGED fnVars
    /\ UNCHANGED <<lastCall, args, tokVars, attempt, exitCode, dirCreated, subVars,
                   idVars, curId, curN, expected_stem, clock, results,
                   failed_count, idx, dlLog, failLines, callTime,
                   lateReq, anyFailed, pollAfterTimeout, nStatus, nRemote,
                   nAuth, promptVars>>

\* one round of "for result in results" (lines 888-897)
WaitBatchItem ==
    /\ pc = "wait_batch_dl" /\ idx <= Len(results)
    /\ LET r == results[idx] IN
       IF r.state = "done" /\ r.zip
          THEN \E lat \in 0..MaxLatency, out \in DlOutcomes :
                 /\ dlLog' = Append(dlLog,
                        DlEntry(idx, out, UnpackMode(expected_stem, results)))
                 /\ anyDlFail' = (anyDlFail \/ out # "ok")
                 /\ clock' = clock + lat /\ callTime' = callTime + lat
                 /\ nRemote' = nRemote + 1
                 /\ lastMsg' = out /\ failLines' = failLines
                 /\ lastCall' = [op |-> "download", out |-> out]
                 /\ idx' = next_result(idx, out, Len(results))
       ELSE IF r.state = "failed"
          THEN /\ failLines' = failLines + 1 /\ lastMsg' = "failed_line"
               /\ idx' = idx + 1
               /\ UNCHANGED <<dlLog, clock, callTime, nRemote, lastCall, anyDlFail>>
          ELSE /\ idx' = idx + 1
               /\ UNCHANGED <<dlLog, clock, callTime, nRemote, failLines, lastMsg,
                              lastCall, anyDlFail>>
    /\ UNCHANGED <<outVars, regFailed>>
    /\ UNCHANGED fnVars
    /\ UNCHANGED <<args, tokVars, pc, attempt, exitCode, dirCreated, subVars,
                   idVars, curId, curN, expected_stem, results, failed_count,
                   loopEnd, loopRet, histVars, nAuth, promptVars>>

\* "Completed in ...", return 0 if failed_count == 0 else 1 (lines 899-901)
WaitBatchReturn ==
    /\ pc = "wait_batch_dl" /\ idx > Len(results)
    /\ pc' = "wait_returned" /\ lastMsg' = "completed"
    /\ loopEnd' = "finished" /\ loopRet' = BatchResult(failed_count)
    /\ anyFailed' = (anyFailed \/ CountState(results, "failed") > 0)
    /\ UNCHANGED <<outVars, regFailed, anyDlFail>>
    /\ UNCHANGED fnVars
    /\ UNCHANGED <<lastCall, args, tokVars, attempt, exitCode, dirCreated, subVars,
                   idVars, curId, curN, expected_stem, clock, results,
                   failed_count, idx, dlLog, failLines, callTime,
                   lateReq, timedOut, pollAfterTimeout, nStatus, nRemote,
                   nAuth, promptVars>>

\* ---- wait_for_task ----
\* one round of the while loop whose timeout test passes (lines 788-835)
WaitTaskPoll ==
    /\ pc = "wait_task"
    /\ ~TimedOut(clock, args.timeout)
    /\ nStatus' = nStatus + 1
    /\ lateReq' = (lateReq \/ clock > args.timeout)
    /\ pollAfterTimeout' = (pollAfterTimeout \/ timedOut)
    /\ \E lat \in 0..MaxLatency, out \in CallOutcomes :
         /\ lastCall' = [op |-> "status", out |-> out]
         /\ IF out = "ok"
               THEN \E st \in Members :
                      /\ results' = <<st>>
                      /\ nAuth' = nAuth
                      /\ IF RenderRaisesNameError
                            THEN \* line 806: NameError, caught by nothing
                                 /\ Crash
                                 /\ clock' = clock + lat /\ callTime' = lat
                                 /\ nRemote' = nRemote + 1
                                 /\ UNCHANGED <<dlLog, loopEnd, loopRet, anyDlFail>>
                         ELSE IF st.state = "done"
                            THEN /\ pc' = "wait_returned" /\ exitCode' = exitCode
                                 /\ lastMsg' = "completed"
                                 /\ loopEnd' = "finished" /\ loopRet' = 0
                                 /\ IF st.zip
                                       THEN \E dlat \in 0..MaxLatency, dl \in DlOutcomes :
                                              /\ dlLog' = <<DlEntry(1, dl, "sub")>>
                                              /\ anyDlFail' = (anyDlFail \/ dl # "ok")
                                              /\ clock' = clock + lat + dlat
                                              /\ callTime' = lat + dlat
                                              /\ nRemote' = nRemote + 2
                                       ELSE /\ dlLog' = dlLog /\ anyDlFail' = anyDlFail
                                            /\ clock' = clock + lat /\ callTime' = lat
                                            /\ nRemote' = nRemote + 1
                         ELSE IF st.state = "failed"
                            THEN /\ pc' = "wait_returned" /\ exitCode' = exitCode
                                 /\ lastMsg' = "failed"
                                 /\ loopEnd' = "finished" /\ loopRet' = 1
                                 /\ clock' = clock + lat /\ callTime' = lat
                                 /\ nRemote' = nRemote + 1 /\ dlLog' = dlLog
                                 /\ anyDlFail' = anyDlFail
                            ELSE /\ pc' = pc /\ exitCode' = exitCode
                                 /\ lastMsg' = "progress"
                                 /\ clock' = clock + lat + POLL_INTERVAL
                                 /\ callTime' = lat /\ nRemote' = nRemote + 1
                                 /\ UNCHANGED <<dlLog, loopEnd, loopRet, anyDlFail>>
            ELSE /\ nRemote' = nRemote + 1 /\ callTime' = lat
                 /\ UNCHANGED <<results, dlLog, loopEnd, loopRet, anyDlFail>>
                 /\ IF Reraised(out)
                       THEN RaiseAuth /\ clock' = clock + lat
                       ELSE /\ pc' = pc /\ exitCode' = exitCode /\ nAuth' = nAuth
                            /\ lastMsg' = "apierr"
                            /\ clock' = clock + lat + POLL_INTERVAL
    /\ UNCHANGED <<outVars, regFailed>>
    /\ UNCHANGED fnVars
    /\ UNCHANGED <<args, tokVars, attempt, dirCreated, subVars, idVars, curId,
                   curN, expected_stem, failed_count, idx, failLines,
                   timedOut, anyFailed, promptVars>>

\* elapsed > timeout: "Timeout after ...", return 1 (lines 789-791)
WaitTaskTimeout ==
    /\ pc = "wait_task"
    /\ TimedOut(clock, args.timeout)
    /\ pc' = "wait_returned" /\ lastMsg' = "timeout"
    /\ loopEnd' = "timeout" /\ loopRet' = 1 /\ timedOut' = TRUE
    /\ UNCHANGED <<outVars, regFailed, anyDlFail>>
    /\ UNCHANGED fnVars
    /\ UNCHANGED <<lastCall, args, tokVars, attempt, exitCode, dirCreated, subVars,
                   idVars, curId, curN, expected_stem, clock, results,
                   failed_count, idx, dlLog, failLines, callTime,
                   lateReq, anyFailed, pollAfterTimeout, nStatus, nRemote,
                   nAuth, promptVars>>

\* ---- the callers after a wait loop returned ----
\* cmd_parse: return wait_for_task(...) / return wait_for_batch(...)
CmdParseReturn ==
    /\ pc = "wait_returned" /\ args.command = "parse"
    /\ Return(loopRet, lastMsg)
    /\ UNCHANGED <<outVars, regFailed, anyDlFail>>
    /\ UNCHANGED fnVars
    /\ UNCHANGED <<lastCall, args, tokVars, attempt, dirCreated, urls, files, batch_id,
                   batch_ids, upIdx, idVars, histVars, nRemote, nAuth,
                   promptVars>>

\* cmd_batch: the result of wait_for_batch is dropped; next batch, or return 0
\* (lines 626-629)
CmdBatchNext ==
    /\ pc = "wait_returned" /\ args.command = "batch"
    /\ IF waitIdx < Len(batch_ids)
          THEN EnterWaitBatch(waitIdx + 1, batch_ids[waitIdx + 1], FALSE)
          ELSE Return(0, lastMsg)
    /\ UNCHANGED <<outVars, regFailed, anyDlFail>>
    /\ UNCHANGED fnVars
    /\ UNCHANGED <<lastCall, args, tokVars, attempt, dirCreated, urls, files, batch_id,
                   batch_ids, upIdx, idVars, histVars, nRemote, nAuth,
                   promptVars>>

\* ---- cmd_status ----
\* output_dir, client.get_batch_status and what follows it (lines 647-668)
StatusBatchQuery ==
    /\ pc = "body" /\ args.command = "status"
    /\ output_dir' = StatusOutputDir(args.output)
    /\ parse_input' = parse_input
    /\ invalidReported' = invalidReported
    /\ nRemote' = nRemote + 1
    /\ \E out \in CallOutcomes :
         /\ lastCall' = [op |-> "batch_status", out |-> out]
         /\ IF out = "ok"
               THEN \E r \in Responses(MaxInputs) :
                      /\ results' = r /\ nAuth' = nAuth
                      /\ exitCode' = exitCode /\ lastMsg' = "batch_status"
                      /\ IF args.download /\ all_done(r)
                            THEN /\ dirCreated' = TRUE
                                 /\ pc' = "status_dl" /\ idx' = 1
                            ELSE /\ dirCreated' = dirCreated
                                 /\ pc' = "status_return" /\ idx' = idx
            ELSE IF StatusReraised(out)
               THEN RaiseAuth /\ UNCHANGED <<results, idx, dirCreated>>
               ELSE /\ pc' = "status_task" /\ exitCode' = exitCode
                    /\ lastMsg' = lastMsg /\ nAuth' = nAuth
                    /\ UNCHANGED <<results, idx, dirCreated>>
    /\ UNCHANGED <<regFailed, anyDlFail>>
    /\ UNCHANGED fnVars
    /\ UNCHANGED <<args, tokVars, attempt, subVars, idVars, curId, curN,
                   expected_stem, clock, failed_count, dlLog, failLines,
                   loopEnd, loopRet, callTime, histVars, promptVars>>

\* client.get_task_status and what follows it (lines 670-683)
StatusTaskQuery ==
    /\ pc = "status_task"
    /\ nRemote' = nRemote + 1
    /\ \E out \in CallOutcomes :
         /\ lastCall' = [op |-> "task_status", out |-> out]
         /\ IF out = "ok"
               THEN \E st \in Members :
                      /\ results' = <<st>> /\ nAuth' = nAuth
                      /\ exitCode' = exitCode /\ lastMsg' = "task_status"
                      /\ IF args.download /\ st.state = "done" /\ st.zip
                            THEN /\ dirCreated' = TRUE
                                 /\ pc' = "status_dl" /\ idx' = 1
                            ELSE /\ dirCreated' = dirCreated
                                 /\ pc' = "status_return" /\ idx' = idx
            ELSE IF StatusReraised(out)
               THEN RaiseAuth /\ UNCHANGED <<results, idx, dirCreated>>
               ELSE /\ pc' = "exit" /\ exitCode' = 1 /\ lastMsg' = "apierr"
                    /\ nAuth' = nAuth
                    /\ UNCHANGED <<results, idx, dirCreated>>
    /\ UNCHANGED <<outVars, regFailed, anyDlFail>>
    /\ UNCHANGED fnVars
    /\ UNCHANGED <<args, tokVars, attempt, subVars, idVars, curId, curN,
                   expected_stem, clock, failed_count, dlLog, failLines,
                   loopEnd, loopRet, callTime, histVars, promptVars>>

\* one download_result of cmd_status: a round of "for result in results"
\* (lines 661-663), or the one of the task branch (lines 674-676)
StatusItem ==
    /\ pc = "status_dl" /\ idx <= Len(results)
    /\ IF results[idx].zip
          THEN \E out \in DlOutcomes :
                 /\ dlLog' = Append(dlLog, DlEntry(idx, out, "sub"))
                 /\ anyDlFail' = (anyDlFail \/ out # "ok")
                 /\ nRemote' = nRemote + 1 /\ lastMsg' = out
                 /\ lastCall' = [op |-> "download", out |-> out]
                 /\ idx' = next_result(idx, out, Len(results))
          ELSE /\ idx' = idx + 1
               /\ UNCHANGED <<dlLog, anyDlFail, nRemote, lastMsg, lastCall>>
    /\ UNCHANGED <<outVars, regFailed>>
    /\ UNCHANGED fnVars
    /\ UNCHANGED <<args, tokVars, pc, attempt, exitCode, dirCreated, subVars,
                   idVars, curId, curN, expected_stem, clock, results,
                   failed_count, failLines, loopEnd, loopRet, callTime,
                   histVars, nAuth, promptVars>>

\* return 0 (line 664 / line 678)
StatusReturn ==
    /\ \/ pc = "status_return"
       \/ pc = "status_dl" /\ idx > Len(results)
    /\ Return(0, lastMsg)
    /\ UNCHANGED <<outVars, regFailed, anyDlFail>>
    /\ UNCHANGED fnVars
    /\ UNCHANGED <<lastCall, args, tokVars, attempt, dirCreated, urls, files,
                   batch_id, batch_ids, upIdx, idVars, histVars, nRemote,
                   nAuth, promptVars>>

\* ---- handle_auth_error ----
\* except AuthError: the Y/n question, prompt_for_token, retry or "Aborted."
HandleAuthError ==
    /\ pc = "auth_error"
    /\ \E ch \in Choices, inp \in TokenInputs \cup {None} :
         LET choice == IF ch = "interrupt" THEN "n" ELSE ch
             asked == choice \notin {"n", "no"}
             new_token == IF asked THEN prompt_for_token(inp) ELSE None
         IN
         /\ (inp = None) <=> ~asked
         /\ nPrompts' = nPrompts + 1 /\ lastChoice' = ch /\ lastTokIn' = inp
         /\ cfgToken' = (IF new_token # None THEN new_token ELSE cfgToken)
         /\ IF ShouldRetry(choice, new_token)
               THEN /\ attempt < MaxAttempts
                    /\ attempt' = attempt + 1
                    /\ pc' = "begin" /\ exitCode' = exitCode
                    /\ lastMsg' = "retrying"
                    /\ token' = None
                    /\ urls' = <<>> /\ files' = <<>> /\ batch_id' = NoJob
                    /\ batch_ids' = <<>> /\ upIdx' = 0 /\ waitIdx' = 0
                    /\ firstId' = nextId
                    /\ curId' = 0 /\ curN' = 0 /\ expected_stem' = FALSE
                    /\ LoopFresh
                    /\ timedOut' = FALSE
                    /\ anyFailed' = FALSE /\ pollAfterTimeout' = FALSE
                    /\ nStatus' = 0 /\ nRemote' = 0
                    /\ invalidReported' = <<>> /\ output_dir' = NoDir
                    /\ parse_input' = NoInput
                    /\ regFailed' = FALSE /\ anyDlFail' = FALSE
               ELSE /\ pc' = "exit" /\ exitCode' = 1 /\ lastMsg' = "aborted"
                    /\ UNCHANGED <<attempt, token, subVars, firstId, loopVars,
                                   timedOut, anyFailed,
                                   pollAfterTimeout, nStatus, nRemote,
                                   outVars, regFailed, anyDlFail>>
    /\ UNCHANGED fnVars
    /\ UNCHANGED <<lastCall, args, envToken, dirCreated, nextId, lateReq, nAuth>>

Next ==
    \/ EnsureToken \/ PromptInitial
    \/ CmdParseBody \/ SubmitUrlTask \/ SubmitFileTask \/ UploadSingle
    \/ CmdBatchBody \/ SubmitBatchUrls \/ SubmitBatchFiles \/ UploadBatchFile
    \/ WaitBatchPoll \/ WaitBatchTimeout \/ WaitBatchItem \/ WaitBatchReturn
    \/ StatusBatchQuery \/ StatusTaskQuery \/ StatusItem \/ StatusReturn
    \/ WaitTaskPoll \/ WaitTaskTimeout
    \/ CmdParseReturn \/ CmdBatchNext
    \/ HandleAuthError

Spec == Init /\ [][Next]_vars

\* ---- the functions on their own ----
\* A function of the program evaluated once on each of its arguments: no
\* command runs (pc = "idle"), probe holds the arguments, verdict the result.
CallProbes ==
    {[NoProbe EXCEPT !.fn = "call", !.call = c, !.resp = r] :
        c \in {"register", "status"}, r \in ApiResponses}
    \cup
    {[NoProbe EXCEPT !.fn = "call", !.call = "upload", !.resp = r] :
        r \in UploadResponses}
\* the file_name of each done member with full_zip_url of a batch of 2 or more
DownloadProbes ==
    {[NoProbe EXCEPT !.fn = "batch_dl", !.names = ns] :
        ns \in UNION {[1..k -> FileNames] : k \in 2..MaxInputs + 1}}
\* extract_progress of a running task
BarProbes ==
    UNION {{[NoProbe EXCEPT !.fn = "bar", !.extracted = e, !.total = t] :
               e \in 0..t} : t \in 1..MaxTotal}
Probes == CallProbes \cup DownloadProbes \cup BarProbes

FnInit ==
    /\ args = [command |-> None, inputs |-> <<>>, no_wait |-> FALSE,
               timeout |-> 0, output |-> FALSE, download |-> FALSE]
    /\ envToken = None /\ cfgToken = None
    /\ pc = "idle"
    /\ Fresh
    /\ probe \in Probes /\ verdict = NoVerdict

\* one call of the client: _request for the registrations and the status
\* requests, upload_file for the upload
ClientCall ==
    /\ pc = "idle" /\ ~verdict.ready /\ probe.fn = "call"
    /\ verdict' = [verdict EXCEPT
                      !.ready = TRUE,
                      !.class = IF probe.call = "upload"
                                THEN upload_file(probe.resp)
                                ELSE request_outcome(probe.resp)]
    /\ UNCHANGED <<args, tokVars, pc, attempt, exitCode, dirCreated, subVars,
                   idVars, loopVars, histVars, lastCall, lastMsg, nRemote,
                   nAuth, promptVars, outVars, regFailed, anyDlFail, probe>>

\* wait_for_batch's "for result in results" on a batch of 2 or more:
\* download_result(url, output_dir, file_name) for every member
BatchDownload ==
    /\ pc = "idle" /\ ~verdict.ready /\ probe.fn = "batch_dl"
    /\ verdict' = [verdict EXCEPT
                      !.ready = TRUE,
                      !.paths = [i \in DOMAIN probe.names |->
                                   [zip |-> zip_path(file_name(probe.names[i])),
                                    dir |-> extract_dir(file_name(probe.names[i]))]]]
    /\ UNCHANGED <<args, tokVars, pc, attempt, exitCode, dirCreated, subVars,
                   idVars, loopVars, histVars, lastCall, lastMsg, nRemote,
                   nAuth, promptVars, outVars, regFailed, anyDlFail, probe>>

\* wait_for_task's progress line of a running task with total > 0
RenderBar ==
    /\ pc = "idle" /\ ~verdict.ready /\ probe.fn = "bar"
    /\ probe.total > 0
    /\ verdict' = [verdict EXCEPT
                      !.ready = TRUE,
                      !.bar = progress_bar(probe.extracted, probe.total)]
    /\ UNCHANGED <<args, tokVars, pc, attempt, exitCode, dirCreated, subVars,
                   idVars, loopVars, histVars, lastCall, lastMsg, nRemote,
                   nAuth, promptVars, outVars, regFailed, anyDlFail, probe>>

FnNext ==
    \/ ClientCall
    \/ BatchDownload
    \/ RenderBar

FnSpec == FnInit /\ [][FnNext]_vars

\* ---- properties ----
InWaitForTask == batch_id.type = "task"
InWaitForBatch == batch_id.type \in {"file", "urls", "files"}
StatusCall(out) == lastCall.op = "status" /\ lastCall.out = out
Ended == pc \in {"exit", "crashed"}

\* C1: in wait_for_task every successful status response is handled without an
\* internal error: a poll that observes done makes the loop return 0, one that
\* observes failed makes it return 1, any other keeps the loop polling until
\* the timeout; the loop never ends in an uncaught non-client exception.
C1_TaskPollHandled ==
    (InWaitForTask /\ StatusCall("ok")) =>
        /\ pc # "crashed"
        /\ results[1].state = "done" => (loopEnd = "finished" /\ loopRet = 0)
        /\ results[1].state = "failed" => (loopEnd = "finished" /\ loopRet = 1)
        /\ results[1].state \notin {"done", "failed"} => loopEnd \in {"none", "timeout"}

\* C2: the batch command run with waiting enabled exits 0 only if no wait loop
\* ended by timeout and no batch it waited on finished with a failed member.
C2_BatchExitZeroOnlyOnFullSuccess ==
    (pc = "exit" /\ args.command = "batch" /\ ~args.no_wait /\ exitCode = 0) =>
        (~anyFailed /\ ~timedOut)

\* C3: when wait_for_batch ends because a poll showed every listed member done
\* or failed, it returns 0 if and only if no member is in state failed.
C3_BatchResultIffNoFailed ==
    (InWaitForBatch /\ loopEnd = "finished") =>
        (loopRet = 0 <=> CountState(results, "failed") = 0)
C3_Witness ==
    /\ InWaitForBatch /\ loopEnd = "finished" /\ loopRet = 1
    /\ Len(results) >= 2
    /\ CountState(results, "done") >= 1 /\ CountState(results, "failed") >= 1

\* C4: a result is unpacked flat if and only if the command tracks exactly one
\* output item (a single task, a single file, a batch of exactly one member).
C4_FlatIffSingleItem ==
    \A k \in 1..Len(dlLog) : (dlLog[k].mode = "flat") <=> (curN = 1)

\* C5: once a wait loop has ended by timeout the command issues no further
\* status request, the timeout is reported, and the command exits with code 1.
C5_TimeoutStopsCommand ==
    /\ timedOut => ~pollAfterTimeout
    /\ loopEnd = "timeout" => loopRet = 1
    /\ (pc = "exit" /\ timedOut) => exitCode = 1

\* C6 as stated: a wait loop is over no later than timeout + poll interval
\* after its start, and no status request starts with elapsed > timeout.
C6_EndsWithinTimeoutPlusInterval ==
    /\ loopEnd # "none" => clock <= args.timeout + POLL_INTERVAL
    /\ ~lateReq

C6_Bound ==
    /\ clock <= args.timeout + POLL_INTERVAL + callTime
    /\ (loopEnd = "timeout" => clock > args.timeout)
    /\ ~lateReq
C6_Progress ==
    (pc \in {"wait_batch", "wait_task"} /\ pc' = pc) =>
        (nStatus' = nStatus + 1 /\ clock' >= clock + POLL_INTERVAL)
\* C6 amended: every round that does not end a wait loop advances its elapsed
\* time by at least the poll interval, the loop is over no later than timeout +
\* poll interval + the time its last round spent blocked in remote calls after
\* its start, and no status request starts with elapsed > timeout.
C6_EndsWithinTimeoutPlusIntervalPlusCalls == []C6_Bound /\ [][C6_Progress]_vars
C6_Witness ==
    /\ loopEnd = "timeout" /\ nStatus >= 1
    /\ clock = args.timeout + POLL_INTERVAL + callTime /\ callTime > 0

\* C7: an AuthenticationFailure of a status poll ends the polling of that
\* attempt; the wrapper prompts once per failure; with a new non-empty token
\* the command restarts from its beginning, and every wait loop polls a job
\* submitted in the current attempt.
C7_Inv ==
    /\ StatusCall("auth") => (pc \in {"auth_error", "exit"} \/ nRemote = 0)
    /\ nPrompts = (IF pc = "auth_error" THEN nAuth - 1 ELSE nAuth)
    /\ pc \in {"wait_batch", "wait_batch_dl", "wait_task", "wait_returned"} =>
          (curId >= firstId /\ curId < nextId)
C7_Step ==
    (pc = "auth_error" /\ StatusCall("auth")) =>
        /\ nPrompts' = nPrompts + 1
        /\ nStatus' <= nStatus
        /\ IF lastChoice' = "y" /\ lastTokIn' \notin {"", "interrupt"}
              THEN /\ pc' = "begin" /\ attempt' = attempt + 1
                   /\ token' = None /\ batch_id' = NoJob /\ batch_ids' = <<>>
                   /\ curId' = 0 /\ nStatus' = 0 /\ nRemote' = 0
                   /\ firstId' = nextId /\ cfgToken' = lastTokIn'
              ELSE pc' = "exit"
C7_AuthFailureInPollRestartsCommand == []C7_Inv /\ [][C7_Step]_vars
C7_Witness ==
    /\ pc = "begin" /\ attempt = 2 /\ StatusCall("auth")
    /\ lastTokIn = "new" /\ nPrompts = 1 /\ batch_id = NoJob

\* C8: the command is re-run only after an AuthenticationFailure answered with
\* a non-empty token; declining, interrupting or an empty token returns 1 with
\* no further remote call; nothing runs after the command returned.
C8_Step ==
    /\ attempt' # attempt =>
          /\ pc = "auth_error" /\ lastCall.out = "auth"
          /\ lastChoice' = "y" /\ lastTokIn' \notin {"", "interrupt", None}
          /\ attempt' = attempt + 1 /\ pc' = "begin"
    /\ pc' = "begin" => attempt' # attempt
    /\ (pc = "auth_error" /\ ~(lastChoice' = "y" /\ lastTokIn' = "new")) =>
          (pc' = "exit" /\ exitCode' = 1 /\ nRemote' = nRemote /\ lastCall' = lastCall)
    /\ ~Ended
C8_RerunOnlyAfterAuthAndToken == [][C8_Step]_vars
C8_Witness ==
    /\ pc = "exit" /\ exitCode = 1 /\ lastMsg = "aborted"
    /\ lastChoice = "y" /\ lastTokIn = "" /\ attempt = 1

\* C9: a non-authentication failure of a status poll does not end the wait
\* loop: it is reported, the loop sleeps 5 and then either polls the same job
\* again or ends by timeout.
C9_Step ==
    /\ (nStatus' = nStatus + 1 /\ lastCall'.out = "api") =>
          /\ pc' = pc /\ curId' = curId /\ loopEnd' = "none"
          /\ exitCode' = NoCode /\ lastMsg' = "apierr"
          /\ clock' = clock + callTime' + POLL_INTERVAL
    /\ (pc \in {"wait_batch", "wait_task"} /\ StatusCall("api")) =>
          \/ nStatus' = nStatus + 1 /\ curId' = curId /\ clock <= args.timeout
          \/ loopEnd' = "timeout" /\ clock > args.timeout
C9_TransientPollFailureKeepsPolling == [][C9_Step]_vars
C9_Witness ==
    /\ pc \in {"wait_batch", "wait_task"} /\ StatusCall("api")
    /\ lastMsg = "apierr" /\ clock >= POLL_INTERVAL /\ clock <= args.timeout

\* C10: wait_for_batch completes only at a poll that reports every submitted
\* member done or failed; before that it keeps polling and downloads nothing.
C10_CompletionNeedsEveryMember ==
    (InWaitForBatch /\ (pc = "wait_batch_dl" \/ loopEnd = "finished" \/ dlLog # <<>>)) =>
        (Len(results) = curN /\ all_finished(results))

\* position i of the inputs occurs in the list
Listed(seq, i) == \E k \in 1..Len(seq) : seq[k] = i
\* the command body of the current attempt got past validation
Validated == token # None /\ pc \notin {"begin", "token_prompt", "body"}

\* C11: an existing local path whose suffix is not supported fails
\* validation (an error is printed for it), and no remote call is made for
\* it: parse makes no remote call at all; batch leaves it out of the URL list
\* and of the file list, and registers, uploads and polls the listed ones only.
C11_UnsupportedNeverSubmitted ==
    \A i \in 1..Len(args.inputs) :
        args.inputs[i] = "badext" =>
            /\ ~Listed(urls, i) /\ ~Listed(files, i)
            /\ Validated => Listed(invalidReported, i)
            /\ args.command = "parse" =>
                  /\ nRemote = 0 /\ batch_id = NoJob /\ ~dirCreated
                  /\ Validated => (pc = "exit" /\ exitCode = 1)
            /\ batch_id.type = "urls" => batch_id.n = Len(urls)
            /\ batch_id.type = "files" =>
                  (batch_id.n = Len(files) /\ upIdx <= Len(files))
            /\ Len(results) <= curN /\ curN <= Len(urls) + Len(files)
C11_Witness ==
    /\ args.command = "batch" /\ pc = "exit" /\ exitCode = 0
    /\ \E i \in 1..Len(args.inputs) :
          args.inputs[i] = "badext" /\ Listed(invalidReported, i)
    /\ files # <<>> /\ lastCall.op = "download"

\* the members of results a download is due for, in batch order
Due(rs) == SelectSeq([i \in 1..Len(rs) |-> i],
                     LAMBDA i : rs[i].state = "done" /\ rs[i].zip)
\* the members the materialization went to, in the order it went to them
Attempted == [k \in 1..Len(dlLog) |-> dlLog[k].i]

C13_EveryDoneMemberAttemptedOnce ==
    InWaitForBatch =>
        /\ pc = "wait_batch_dl" =>
              Attempted = SelectSeq(Due(results), LAMBDA i : i < idx)
        /\ loopEnd = "finished" => Attempted = Due(results)
C13_Witness ==
    /\ InWaitForBatch /\ loopEnd = "finished" /\ Len(dlLog) = 2
    /\ dlLog[1].out = "dlfail" /\ dlLog[2].i = 2

\* C14: if the download or the unpacking of the result of a done item
\* fails, the command does not exit with code 0.
C14_FailedMaterializationNotExitZero ==
    (pc = "exit" /\ anyDlFail) => exitCode # 0

\* C15: in parse on a local file, when the upload does not succeed the
\* command reports the failure and returns a non-zero code without polling:
\* no status request and no download follows.
C15_UploadFailureEndsParse ==
    (args.command = "parse" /\ lastCall.op = "upload" /\ lastCall.out # "ok") =>
        /\ pc = "exit" /\ exitCode = 1 /\ lastMsg = "upload_failed"
        /\ nStatus = 0 /\ dlLog = <<>>

\* C16: in batch, once the file batch is registered every valid file gets one
\* upload attempt, against the signed URL at its own position and in
\* submission order; an upload that fails stops neither the uploads of the
\* later files nor the polling of the batch.
C16_EveryFileUploadedThenPolled ==
    (args.command = "batch" /\ batch_id.type = "files") =>
        /\ pc = "upload" => upIdx \in 1..Len(files)
        /\ pc # "upload" =>
              /\ upIdx = Len(files)
              /\ pc # "crashed"
              /\ \E k \in 1..Len(batch_ids) : batch_ids[k] = batch_id
              /\ (pc = "exit" /\ args.no_wait) \/ nPrompts > 0 \/ curId # 0

\* the batches the command has to register: one per non-empty group
Groups == (IF urls # <<>> THEN <<[type |-> "urls", n |-> Len(urls)]>> ELSE <<>>)
          \o (IF files # <<>> THEN <<[type |-> "files", n |-> Len(files)]>> ELSE <<>>)

\* C17: in batch, once the inputs are partitioned: a local input that fails
\* validation has its error printed and is in neither list, every URL is in
\* the URL list and every valid file in the file list, and a command whose
\* registrations all succeeded registered one batch per non-empty list with
\* all of its members; the command has returned 1 without having made a
\* remote call if and only if both lists are empty.
C17_InvalidInputsLeftOut ==
    (args.command = "batch" /\ Validated) =>
        /\ urls = Positions({"url"}) /\ files = Positions({"file"})
        /\ invalidReported = Positions(BatchKinds \ {"url", "file"})
        /\ (pc = "exit" /\ exitCode = 1 /\ nRemote = 0) <=>
              (urls = <<>> /\ files = <<>>)
        /\ (pc = "exit" /\ ~regFailed /\ lastMsg # "aborted") =>
              [k \in 1..Len(batch_ids) |->
                  [type |-> batch_ids[k].type, n |-> batch_ids[k].n]] = Groups
C17_Witness ==
    /\ args.command = "batch" /\ pc = "exit" /\ exitCode = 0
    /\ args.inputs = <<"badext", "url">>
    /\ invalidReported = <<1>> /\ urls = <<2>> /\ Len(batch_ids) = 1

\* C18: when a registration fails with a non-authentication client failure
\* the command exits with code 1, in parse and in batch, also when only one
\* of the two groups of a batch fails to register; parse prints the failure
\* and ends without a status request or a download, and in batch the failed
\* submission is not among the batches that are polled.
C18_RegistrationFailureExitsOne ==
    regFailed =>
        /\ pc = "exit" => exitCode = 1
        /\ args.command = "parse" =>
              (nStatus = 0 /\ dlLog = <<>> /\ Ended /\ lastMsg = "apierr")
        /\ args.command = "batch" => Len(batch_ids) < Len(Groups)

BatchQueryStep == lastCall'.op = "batch_status" /\ nRemote' = nRemote + 1
TaskQueryStep == lastCall'.op = "task_status" /\ nRemote' = nRemote + 1
BatchQueryFailed ==
    lastCall = [op |-> "batch_status", out |-> "api"] /\ nRemote = 1

\* C19: the status command queries the identifier as a batch first; it
\* queries it as a single task exactly when that batch query failed with a
\* non-authentication failure, and then at once.  An authentication failure
\* of the batch query goes to the re-authentication prompt with no task
\* query in that attempt, and a successful batch query is followed by no
\* task query.
C19_Inv ==
    args.command = "status" => (pc = "status_task" <=> BatchQueryFailed)
C19_Step ==
    /\ (args.command = "status" /\ nRemote = 0 /\ nRemote' > 0) => BatchQueryStep
    /\ TaskQueryStep => BatchQueryFailed
    /\ (BatchQueryFailed /\ pc' # pc) => TaskQueryStep
    /\ (BatchQueryStep /\ lastCall'.out = "auth") =>
          (pc' = "auth_error" /\ nAuth' = nAuth + 1)
    /\ (BatchQueryStep /\ lastCall'.out = "ok") =>
          pc' \in {"status_dl", "status_return"}
    /\ (BatchQueryStep /\ lastCall'.out = "api") => pc' = "status_task"
C19_BatchQueryFirstTaskQueryOnFailure == []C19_Inv /\ [][C19_Step]_vars
C19_Witness ==
    /\ args.command = "status" /\ pc = "exit" /\ exitCode = 0
    /\ lastCall = [op |-> "task_status", out |-> "ok"] /\ nRemote = 2

\* the output directory of a parse or batch command has been computed
OutputComputed == args.command \in {"parse", "batch"} /\ output_dir # NoDir
Override == [root |-> "override", of |-> 0, stem |-> None]
SingleLocalFile == args.command = "parse" /\ args.inputs[1] = "file"

\* C20 as stated: the output location is the explicit override whenever one
\* is given; otherwise the generated {stem}_MinerU_{timestamp} directory,
\* under the source file's parent for a single local file, and under the
\* current working directory for every batch and for every URL input.
C20_OutputLocation ==
    OutputComputed =>
        output_dir =
            IF args.output THEN Override
            ELSE IF SingleLocalFile
                 THEN [root |-> "parent", of |-> 1, stem |-> "input"]
            ELSE [root |-> "cwd", of |-> 0,
                  stem |-> IF args.command = "batch" THEN "batch" ELSE "input"]

\* C20 amended: as above, except that a batch with at least one valid local
\* file puts the generated batch_MinerU_{timestamp} directory under the
\* parent directory of its first valid file; only a batch of URLs alone (and
\* every URL input of parse) uses the current working directory.
C20_OutputLocationFirstFileParent ==
    OutputComputed =>
        output_dir =
            IF args.output THEN Override
            ELSE IF SingleLocalFile
                 THEN [root |-> "parent", of |-> 1, stem |-> "input"]
            ELSE IF args.command = "batch" /\ Positions({"file"}) # <<>>
                 THEN [root |-> "parent", of |-> Head(Positions({"file"})),
                       stem |-> "batch"]
            ELSE [root |-> "cwd", of |-> 0,
                  stem |-> IF args.command = "batch" THEN "batch" ELSE "input"]
C20_Witness ==
    /\ args.command = "batch" /\ ~args.output /\ args.inputs = <<"url", "file">>
    /\ output_dir = [root |-> "parent", of |-> 2, stem |-> "batch"]
    /\ pc = "exit" /\ exitCode = 0

\* messages of Messages with "auth" or "token" in them, whatever the case
AuthWords == {<<"A", "U", "T", "H">>,
              <<"n", "o", " ", "T", "o", "k", "e", "n">>,
              <<"u", "n", "a", "u", "t", "h", "o", "r", "i", "z", "e", "d">>}

\* C21: every client call classifies its outcome in the same way, the
\* registrations, the status requests and the upload alike: success is
\* success (envelope code 0; for the upload, which has no envelope, status
\* 200), a failure is an authentication failure exactly when the code is 401
\* or the message has "auth" or "token" in it, and any other failure, a
\* network-level error included, is a non-authentication client failure
\* that the caller gets to handle (for the upload: an APIError or the result
\* False).
C21_OutcomeClassifiedAlike ==
    (verdict.ready /\ probe.fn = "call") =>
        LET r == probe.resp
            success == IF probe.call = "upload" THEN r.code = 200 ELSE r.code = 0
        IN
        verdict.class =
            IF r.kind = "neterr" THEN (IF probe.call = "upload" THEN "fail" ELSE "api")
            ELSE IF success THEN "ok"
            ELSE IF r.code = 401 \/ r.msg \in AuthWords THEN "auth"
            ELSE (IF probe.call = "upload" THEN "fail" ELSE "api")

\* pc while the command registers and uploads
Submitting == pc \in {"submit_url", "submit_file", "upload_one",
                      "submit_urls", "submit_files", "upload"}
\* pc' once a wait loop has been entered
Polling == pc' \in {"wait_task", "wait_batch"}
\* the step ends the submission with something registered (and, in parse,
\* uploaded) and no exception
SubmittedOk ==
    /\ Submitting /\ pc' \notin {"submit_file", "upload_one", "submit_urls",
                                  "submit_files", "upload", "auth_error", "crashed"}
    /\ IF args.command = "parse" THEN lastCall'.out = "ok"
                                  ELSE batch_ids' # <<>>

\* C22: with --no-wait parse and batch only submit: no status request, no
\* download, no wait loop, and the step that ends a successful submission
\* returns 0; without it that step enters the wait loop of the first
\* registered job.
C22_Inv ==
    (args.command \in {"parse", "batch"} /\ args.no_wait) =>
        /\ nStatus = 0 /\ dlLog = <<>> /\ curId = 0
        /\ pc \notin {"wait_task", "wait_batch", "wait_batch_dl", "wait_returned"}
        /\ lastCall.op \notin {"status", "download"}
C22_Step ==
    SubmittedOk =>
        IF args.no_wait
           THEN pc' = "exit" /\ exitCode' = 0 /\ nRemote' = nRemote + 1
           ELSE /\ Polling /\ exitCode' = NoCode /\ clock' = 0
                /\ curId' = (IF args.command = "parse" THEN batch_id'.id
                                                        ELSE batch_ids'[1].id)
C22_NoWaitOnlySubmits == []C22_Inv /\ [][C22_Step]_vars
C22_Witness ==
    /\ args.command = "batch" /\ args.no_wait /\ pc = "exit" /\ exitCode = 0
    /\ lastCall = [op |-> "upload", out |-> "ok"] /\ Len(batch_ids) = 2
    /\ nStatus = 0

\* C23: the output directory is created only when the first file is about
\* to be written into it: as long as no download of the invocation has been
\* started or is due (first attempt, first wait loop, nothing downloaded, not
\* in a materialization), it does not exist; so a run whose registration or
\* upload fails, that times out, that ends in an authentication failure or
\* without a done item leaves none behind.
C23_OutputDirCreatedLazily ==
    (/\ attempt = 1 /\ waitIdx <= 1 /\ dlLog = <<>>
     /\ pc \notin {"wait_batch_dl", "status_dl"}) => ~dirCreated

\* C24: a batch invocation registers at most one URL batch and one file
\* batch, each with all inputs of its kind, and a non-authentication failure of
\* one registration does not prevent the other batch from being registered or
\* waited for; no status request is made before every registration and upload
\* is over; the registered batches are waited for one after another in the
\* order of registration, the loop always polling the batch it was entered
\* for, and each wait loop starts with a timeout budget of its own.
BatchSubmitting == pc \in {"submit_urls", "submit_files", "upload"}
BatchWaiting == pc \in {"wait_batch", "wait_batch_dl", "wait_returned"}
C24_Inv ==
    args.command = "batch" =>
      /\ Len(batch_ids) <= 2
      /\ \A i, j \in DOMAIN batch_ids :
            batch_ids[i].type = batch_ids[j].type => i = j
      /\ \A i \in DOMAIN batch_ids :
            /\ batch_ids[i].type \in {"urls", "files"}
            /\ batch_ids[i].n =
                  (IF batch_ids[i].type = "urls" THEN Len(urls) ELSE Len(files))
      /\ BatchSubmitting => (nStatus = 0 /\ waitIdx = 0)
      /\ BatchWaiting =>
            /\ waitIdx \in DOMAIN batch_ids
            /\ curId = batch_ids[waitIdx].id /\ curN = batch_ids[waitIdx].n
C24_Step ==
    (args.command = "batch" /\ attempt' = attempt) =>
      /\ (pc = "submit_urls" /\ lastCall'.out = "api" /\ files # <<>>)
            => pc' = "submit_files"
      /\ (pc = "submit_urls" /\ lastCall'.out = "ok")
            => (Len(batch_ids') = 1 /\ batch_ids'[1].type = "urls")
      /\ (pc = "submit_files" /\ lastCall'.out = "api" /\ batch_ids # <<>>
             /\ ~args.no_wait)
            => (pc' = "wait_batch" /\ waitIdx' = 1)
      /\ (pc = "upload" /\ pc' # "upload" /\ lastCall'.out # "neterr")
            => (batch_ids' # <<>> /\ batch_ids'[Len(batch_ids')].type = "files")
      /\ (BatchWaiting /\ ~BatchWaiting') => pc' \in {"exit", "auth_error"}
      /\ (pc' = "wait_batch" /\ pc # "wait_batch")
            => /\ clock' = 0
               /\ IF pc = "wait_returned" THEN waitIdx' = waitIdx + 1
                  ELSE BatchSubmitting /\ waitIdx' = 1
      /\ (pc = "wait_batch" \/ pc' # "wait_batch") => waitIdx' = waitIdx
C24_BatchesSequential == []C24_Inv /\ [][C24_Step]_vars
\* the URL batch timed out, and the file batch, polled within its own budget,
\* was found finished
C24_Witness ==
    /\ args.command = "batch" /\ Len(batch_ids) = 2 /\ waitIdx = 2
    /\ timedOut /\ pc = "wait_batch_dl" /\ clock <= args.timeout

\* C25: a download is started only for a job polled as done with a result
\* location (a failed or non-terminal member never, a done member without a
\* location is skipped), and in a wait for a batch no download is started
\* before every member submitted in the batch is reported terminal.
DownloadedAreDoneWithLocation ==
    \A k \in DOMAIN dlLog :
        /\ dlLog[k].i \in DOMAIN results
        /\ results[dlLog[k].i].state = "done" /\ results[dlLog[k].i].zip
C25_DownloadOnlyDoneWithLocation ==
    /\ DownloadedAreDoneWithLocation
    /\ (InWaitForBatch /\ dlLog # <<>>) =>
          (Len(results) = curN /\ all_finished(results))

\* C26: in a batch of 2 or more members no two distinct done members share
\* the temporary archive path or the extraction directory, also when their
\* file names have the same stem or are missing.
C26_DedicatedSubdirectories ==
    (verdict.ready /\ probe.fn = "batch_dl") =>
        \A i, j \in DOMAIN verdict.paths :
            i # j => /\ verdict.paths[i].zip # verdict.paths[j].zip
                     /\ verdict.paths[i].dir # verdict.paths[j].dir

\* C30: the progress bar of a running task with total > 0 and
\* 0 <= extracted <= total has exactly floor(30 * extracted / total) filled
\* segments and is exactly 30 characters wide, also when extracted = total.
Filled(bar) == Cardinality({i \in DOMAIN bar : bar[i] = "="})
C30_ProgressBarBounded ==
    (verdict.ready /\ probe.fn = "bar") =>
        /\ Filled(verdict.bar) = (30 * probe.extracted) \div probe.total
        /\ Len(verdict.bar) = 30

\* C27: after an authentication failure and a new non-empty token entered at
\* the prompt, the retried attempt makes its remote calls with the token just
\* entered, whichever source supplied the rejected one.
C27_RetryUsesNewToken ==
    (attempt > 1 /\ nRemote > 0) => token = "new"

\* C29: parse classifies its input by precedence: a string with an http or
\* https scheme is a remote URL, submitted as it is, whether or not a path of
\* that name exists; otherwise a string naming an existing path is a local
\* path; otherwise text with an http(s) URL inside is submitted as that URL,
\* and text with only a bare domain-like token as https:// plus the token;
\* otherwise it is a local path.  So a path that does not exist is reported
\* as invalid only when nothing can be extracted from it, and is otherwise
\* submitted as a URL job.
Classified == args.command = "parse" /\ parse_input # NoInput
C29_ClassificationPrecedence ==
    Classified =>
      LET k == args.inputs[1] IN
      /\ parse_input =
            CASE k \in {"url", "urlfile"} -> [branch |-> "url", url |-> "input"]
              [] k \in {"file", "badext"} -> [branch |-> "file_path", url |-> None]
              [] k = "text" -> [branch |-> "extracted_url", url |-> "match"]
              [] k = "domain" ->
                    [branch |-> "extracted_url", url |-> "https_token"]
              [] OTHER -> [branch |-> "file_path", url |-> None]
      /\ (k \in {"missing", "text", "domain"} /\ invalidReported # <<>>)
            => k = "missing"
      /\ (k \in {"text", "domain", "url", "urlfile"} /\ nRemote > 0)
            => (lastCall.op # "upload" /\ batch_id.type \in {None, "task"})
\* "example.com/a.pdf", no such path: registered as a URL task
C29_Witness ==
    /\ Classified /\ args.inputs[1] = "domain"
    /\ parse_input.url = "https_token"
    /\ lastCall = [op |-> "submit", out |-> "ok"] /\ batch_id.type = "task"

\* C28: the status command never loops: an attempt makes at most one batch
\* status request, as its first remote call, and at most one task status
\* request, right after it, and enters no wait loop.  It downloads only with
\* --download, for a batch only when every listed member is done (nothing
\* otherwise, not even the done members), for a single task only when the
\* task is done with a result location.
C28_Inv ==
    args.command = "status" =>
      /\ nStatus = 0
      /\ pc \notin {"wait_task", "wait_batch", "wait_batch_dl", "wait_returned"}
      /\ (dlLog # <<>> \/ pc = "status_dl") =>
            /\ args.download
            /\ \A i \in DOMAIN results : results[i].state = "done"
      /\ \A k \in DOMAIN dlLog :
            /\ dlLog[k].i \in DOMAIN results /\ results[dlLog[k].i].zip
            /\ \A j \in DOMAIN dlLog : dlLog[j].i = dlLog[k].i => j = k
C28_Step ==
    (args.command = "status" /\ attempt' = attempt) =>
      /\ BatchQueryStep => nRemote = 0
      /\ TaskQueryStep => (nRemote = 1 /\ lastCall.op = "batch_status")
      /\ (lastCall'.op = "download" /\ nRemote' = nRemote + 1) =>
            (pc = "status_dl" /\ pc' = "status_dl")
C28_StatusNeverLoops == []C28_Inv /\ [][C28_Step]_vars
\* status --download on a batch of two done members: both downloaded, exit 0
C28_Witness ==
    /\ args.command = "status" /\ args.download /\ pc = "exit" /\ exitCode = 0
    /\ Len(results) = 2 /\ Len(dlLog) = 2 /\ nRemote = 3

====
